---- MODULE Spec2Model ----
(***************************************************************************)
(* Model of src/src/lib.rs: the four entry points compile_sync, compile,   *)
(* compile_single and compile_single_sync, which drive a freshly created   *)
(* StyleSheetResource (float_pigment_css) through prefix binding, source   *)
(* registration, per-file serialization and import-index generation.       *)
(*                                                                         *)
(* Bytes are numbers 0..255, a byte buffer is a sequence of bytes, a text  *)
(* (Rust String) is a sequence of Unicode scalar values, a name and an     *)
(* output type are strings, a HashMap is a function on its key set.        *)
(***************************************************************************)
EXTENDS Integers, Sequences, FiniteSets, TLC

\* ------------------------------------------------------------------ bounds

\* Number of invocations a behaviour may hold at once.
MaxInv == 2

\* Longest source buffer drawn by the single-invocation specification.
MaxContentLen == 3

\* ------------------------------------------------------------------ inputs

Inv == 1 .. MaxInv

Names == {"a.css", "b.css"}

OutputTypes == {"bincode", "json"}

\* tag_name_prefix values: the empty string and "p".
Prefixes == {<< >>, <<112>>}

\* Source buffers of the concurrent specification: "a" followed by an invalid
\* byte; a two-byte character followed by an invalid byte.
Contents == {<<97, 255>>, <<195, 169, 255>>}

\* Source buffers of the two-name requests of the single-invocation
\* specification: the above and the empty buffer.
SoloContents == Contents \cup {<< >>}

\* Bytes the single-invocation specification builds its buffers from: an ASCII byte,
\* a two-, three- and four-byte lead, a continuation byte, and a byte that
\* never occurs in UTF-8.
ByteAlphabet == {97, 195, 226, 240, 169, 255}

RECURSIVE SeqsUpTo(_, _)
SeqsUpTo(S, n) ==
  IF n = 0 THEN {<< >>}
  ELSE LET shorter == SeqsUpTo(S, n - 1)
       IN  shorter \cup {Append(s, x) : s \in {t \in shorter : Len(t) = n - 1}, x \in S}

\* Every iteration order of a key set (a HashMap iterates in an order fixed
\* by its hasher's random state, the same for keys() and iter()).
RECURSIVE Orders(_)
Orders(S) ==
  IF S = {} THEN {<< >>}
  ELSE UNION {{<<x>> \o t : t \in Orders(S \ {x})} : x \in S}

SrcMaps(contents) == UNION {[K -> contents] : K \in SUBSET Names}

\* Every buffer over ByteAlphabet of at most MaxContentLen bytes.
Buffers == SeqsUpTo(ByteAlphabet, MaxContentLen)

\* The requests with exactly one source.
OneSrcMaps(contents) == UNION {[{n} -> contents] : n \in Names}

\* --------------------------------------------------- String::from_utf8_lossy

REPLACEMENT_CHARACTER == 65533

TAG_CONT_U8(b) == b >= 128 /\ b <= 191

utf8_char_width(b) ==
  IF b < 128 THEN 1
  ELSE IF b >= 194 /\ b <= 223 THEN 2
  ELSE IF b >= 224 /\ b <= 239 THEN 3
  ELSE IF b >= 240 /\ b <= 244 THEN 4
  ELSE 0

safe_get(bytes, i) == IF i <= Len(bytes) THEN bytes[i] ELSE 0

\* Second byte of a three-byte sequence allowed after lead b.
second_of_3(b, s) ==
  \/ b = 224 /\ s >= 160 /\ s <= 191
  \/ b >= 225 /\ b <= 236 /\ s >= 128 /\ s <= 191
  \/ b = 237 /\ s >= 128 /\ s <= 159
  \/ b >= 238 /\ b <= 239 /\ s >= 128 /\ s <= 191

\* Second byte of a four-byte sequence allowed after lead b.
second_of_4(b, s) ==
  \/ b = 240 /\ s >= 144 /\ s <= 191
  \/ b >= 241 /\ b <= 243 /\ s >= 128 /\ s <= 191
  \/ b = 244 /\ s >= 128 /\ s <= 143

\* Decoding from position i: a valid sequence yields its scalar value, a
\* maximal invalid prefix yields one U+FFFD and decoding resumes after it.
RECURSIVE lossy_from(_, _)
lossy_from(bytes, i) ==
  IF i > Len(bytes) THEN << >>
  ELSE
    LET b  == bytes[i]
        b2 == safe_get(bytes, i + 1)
        b3 == safe_get(bytes, i + 2)
        b4 == safe_get(bytes, i + 3)
        w  == utf8_char_width(b)
        bad(k) == <<REPLACEMENT_CHARACTER>> \o lossy_from(bytes, i + k)
    IN  IF w = 1 THEN <<b>> \o lossy_from(bytes, i + 1)
        ELSE IF w = 2 THEN
          IF TAG_CONT_U8(b2)
          THEN <<(b % 32) * 64 + (b2 % 64)>> \o lossy_from(bytes, i + 2)
          ELSE bad(1)
        ELSE IF w = 3 THEN
          IF ~second_of_3(b, b2) THEN bad(1)
          ELSE IF ~TAG_CONT_U8(b3) THEN bad(2)
          ELSE <<(b % 16) * 4096 + (b2 % 64) * 64 + (b3 % 64)>>
                 \o lossy_from(bytes, i + 3)
        ELSE IF w = 4 THEN
          IF ~second_of_4(b, b2) THEN bad(1)
          ELSE IF ~TAG_CONT_U8(b3) THEN bad(2)
          ELSE IF ~TAG_CONT_U8(b4) THEN bad(3)
          ELSE <<(b % 8) * 262144 + (b2 % 64) * 4096 + (b3 % 64) * 64 + (b4 % 64)>>
                 \o lossy_from(bytes, i + 4)
        ELSE bad(1)

\* The text up to the first replaced sequence.
RECURSIVE valid_prefix(_)
valid_prefix(text) ==
  IF text = << >> \/ Head(text) = REPLACEMENT_CHARACTER THEN << >>
  ELSE <<Head(text)>> \o valid_prefix(Tail(text))

\* Faulty variant of the decoding: it stops at the first invalid sequence.
from_utf8_until_invalid(bytes) == valid_prefix(lossy_from(bytes, 1))

\* String::from_utf8_lossy(bytes)
from_utf8_lossy(bytes) == lossy_from(bytes, 1)

\* ------------------------------------- StyleSheetResource (float_pigment_css)
\* The engine is an external crate.  Its state and its answers are modelled
\* from the contract the pipeline relies on: a per-name prefix association,
\* a per-name registered sheet, answers that are functions of what has been
\* bound and registered on this instance.

NameList == <<"a.css", "b.css">>

EmptyMap == [x \in {} |-> 0]

None == << >>
Some(v) == <<v>>

\* StyleSheetResource::new()
new_ssr == [live |-> TRUE, prefixes |-> EmptyMap, refs |-> EmptyMap]

\* No instance: nothing has been created in this place yet.
NoEngine == [live |-> FALSE, prefixes |-> EmptyMap, refs |-> EmptyMap]

\* add_tag_name_prefix(name, prefix)
add_tag_name_prefix(e, name, prefix) ==
  [e EXCEPT !.prefixes = (name :> prefix) @@ @]

\* The sheet add_source stores: the text under the prefix bound for the name.
sheet_of(e, name, text) ==
  [text   |-> text,
   prefix |-> IF name \in DOMAIN e.prefixes THEN e.prefixes[name] ELSE << >>]

\* add_source(name, text): the engine after the call.
add_source(e, name, text) ==
  [e EXCEPT !.refs = (name :> sheet_of(e, name, text)) @@ @]

\* add_source(name, text): the warnings returned, one per scalar value the
\* engine cannot use (here: every non-ASCII one), in source order.
is_ascii(c) == c < 128

RECURSIVE warnings_of(_)
warnings_of(text) ==
  IF text = << >> THEN << >>
  ELSE IF is_ascii(Head(text)) THEN warnings_of(Tail(text))
  ELSE <<[message |-> Head(text)]>> \o warnings_of(Tail(text))

\* The compiled output of a sheet: its usable (ASCII) content.
compiled(sheet) == SelectSeq(sheet.text, is_ascii)

\* serialize_bincode(name): absent when the name was never registered or its
\* sheet compiled to nothing, otherwise the artifact bytes.
serialize_bincode(e, name) ==
  IF name \notin DOMAIN e.refs THEN None
  ELSE IF compiled(e.refs[name]) = << >> THEN None
  ELSE Some(e.refs[name].prefix \o compiled(e.refs[name]))

\* generate_import_indexes().serialize_bincode(): a count, then one record
\* per registered name in the index's own (name) order.
RECURSIVE index_entries(_, _)
index_entries(e, n) ==
  IF n > Len(NameList) THEN << >>
  ELSE (IF NameList[n] \in DOMAIN e.refs
        THEN <<n, Len(compiled(e.refs[NameList[n]]))>>
        ELSE << >>) \o index_entries(e, n + 1)

import_index_bincode(e) ==
  <<Cardinality(DOMAIN e.refs)>> \o index_entries(e, 1)

\* ------------------------------------------------------ result assembly

EntryPoints == {"compile_sync", "compile", "compile_single", "compile_single_sync"}

IsBatch(f) == f \in {"compile_sync", "compile"}
IsAsync(f) == f \in {"compile", "compile_single"}

\* Faulty variant of the loop below: a message already pushed is not pushed
\* again.
RECURSIVE push_new_messages(_, _)
push_new_messages(arr, warn) ==
  IF warn = << >> THEN arr
  ELSE IF \E k \in 1 .. Len(arr) : arr[k] = Head(warn).message
       THEN push_new_messages(arr, Tail(warn))
       ELSE push_new_messages(Append(arr, Head(warn).message), Tail(warn))

\* `for w in warn { arr.push(String::from(w.message.as_str())) }`
RECURSIVE push_messages(_, _)
push_messages(arr, warn) ==
  IF warn = << >> THEN arr
  ELSE push_messages(Append(arr, Head(warn).message), Tail(warn))

\* The empty result each entry point starts from.
new_result(f) ==
  IF IsBatch(f) THEN [import_index |-> << >>, files |-> EmptyMap]
  ELSE [content |-> << >>, warnings |-> << >>]

\* Faulty variant of sync_insert: a name without warnings gets no entry.
sync_insert_if_warned(res, name, warn) ==
  IF warn = << >> THEN res
  ELSE [res EXCEPT !.files =
          (name :> [content |-> << >>, warnings |-> push_messages(<< >>, warn)]) @@ @]

\* compile_sync, registration: result.files.insert(name, {empty, warnings}).
sync_insert(res, name, warn) ==
  [res EXCEPT !.files =
     (name :> [content |-> << >>, warnings |-> push_messages(<< >>, warn)]) @@ @]

\* Faulty variant of task_insert: the warnings are left out.
task_insert_dropping(res, name, warn) ==
  [res EXCEPT !.files = (name :> [content |-> << >>, warnings |-> << >>]) @@ @]

\* compile, registration: the same statement inside the spawned task.
task_insert(res, name, warn) ==
  [res EXCEPT !.files =
     (name :> [content |-> << >>, warnings |-> push_messages(<< >>, warn)]) @@ @]

\* compile_single_sync, registration: push onto result.warnings.
single_sync_push(res, warn) ==
  [res EXCEPT !.warnings = push_messages(@, warn)]

\* compile_single, registration: the same statement inside the spawned task.
single_task_push(res, warn) ==
  [res EXCEPT !.warnings = push_messages(@, warn)]

registered(f, res, name, warn) ==
  CASE f = "compile_sync"        -> sync_insert(res, name, warn)
    [] f = "compile"             -> task_insert(res, name, warn)
    [] f = "compile_single_sync" -> single_sync_push(res, warn)
    [] f = "compile_single"      -> single_task_push(res, warn)

\* Faulty variant of batch_store: a name without an artifact loses its entry.
batch_store_dropping_absent(res, name, bincode) ==
  IF bincode = None
  THEN [res EXCEPT !.files = [n \in DOMAIN res.files \ {name} |-> res.files[n]]]
  ELSE IF name \in DOMAIN res.files
  THEN [res EXCEPT !.files[name].content = bincode[1]]
  ELSE res

\* Batch, serialization: `if let Some(bincode) ... if let Some(file) =
\* result.files.get_mut(name) { file.content = bincode }`.
batch_store(res, name, bincode) ==
  IF bincode # None /\ name \in DOMAIN res.files
  THEN [res EXCEPT !.files[name].content = bincode[1]]
  ELSE res

\* Faulty variant of single_store: the artifact is never stored.
single_store_nothing(res, bincode) == res

\* Single, serialization: `if let Some(bincode) ... { result.content = bincode }`.
single_store(res, bincode) ==
  IF bincode # None THEN [res EXCEPT !.content = bincode[1]] ELSE res

serialized(f, res, name, bincode) ==
  IF IsBatch(f) THEN batch_store(res, name, bincode) ELSE single_store(res, bincode)

\* The names an entry point works through and the buffer of each.
keys_of(f, c) == IF IsBatch(f) THEN DOMAIN c.src ELSE {c.file_name}
data_of(f, c, name) == IF IsBatch(f) THEN c.src[name] ELSE c.file_content

\* --------------------------------------------------------------- the state

VARIABLES
  pc,         \* pc[i]: where invocation i stands
  entry,      \* the entry point invocation i was made through
  cfg,        \* the request: CompileOption or CompileSingleOption
  iter,       \* the order in which cfg.src iterates
  pos,        \* position of the running loop in iter[i]
  ssr,        \* ssr[e]: the StyleSheetResource instance e
  log,        \* log[e]: the calls made on instance e, with their answers
  result,     \* the result under construction
  delivered,  \* what the caller has received
  settles     \* how many times the caller received an outcome

vars == <<pc, entry, cfg, iter, pos, ssr, log, result, delivered, settles>>

NoValue == [status |-> "none"]
Pending == [status |-> "pending"]

\* Faulty variant of engine_of: one instance shared by every invocation.
shared_engine(i) == 1

\* The instance invocation i works on: the local `ssr` of its own call frame.
engine_of(i) == i

\* The calls invocation i has made, in order.
Calls(i) == SelectSeq(log[engine_of(i)], LAMBDA c : c.by = i)

\* A call that returned ret, and a call that panicked.
Call(i, op, name, arg, ret) ==
  [by |-> i, op |-> op, name |-> name, arg |-> arg, ret |-> ret, panicked |-> FALSE]

PanickedCall(i, op, name) ==
  [by |-> i, op |-> op, name |-> name, arg |-> << >>, ret |-> << >>, panicked |-> TRUE]

Init ==
  /\ pc = [i \in Inv |-> "idle"]
  /\ entry = [i \in Inv |-> "none"]
  /\ cfg = [i \in Inv |-> EmptyMap]
  /\ iter = [i \in Inv |-> << >>]
  /\ pos = [i \in Inv |-> 0]
  /\ ssr = [i \in Inv |-> NoEngine]
  /\ log = [i \in Inv |-> << >>]
  /\ result = [i \in Inv |-> EmptyMap]
  /\ delivered = [i \in Inv |-> NoValue]
  /\ settles = [i \in Inv |-> 0]

\* ------------------------------------------------------------- the steps

\* Faulty variant of after_guard: a request without sources returns at once.
after_guard_returning_on_empty(f, c, order) ==
  IF order = << >> THEN "return"
  ELSE IF c.tag_name_prefix # << >> THEN "prefix"
  ELSE "register"

\* Faulty variant of after_guard: the prefix loop is never entered.
after_guard_skipping_prefix(f, c, order) ==
  IF order = << >> THEN "index" ELSE "register"

\* The phase that follows the engine's creation.
after_guard(f, c, order) ==
  IF order = << >> THEN "index"
  ELSE IF c.tag_name_prefix # << >> THEN "prefix"
  ELSE "register"

\* A call of an entry point with request c.  The caller of a blocking entry
\* point runs the body itself; an offloaded one spawns the body as a task and
\* awaits its JoinHandle.  `order` is the iteration order of the request's map.
Call_entry(i, f, c, order) ==
  /\ pc[i] = "idle"
  /\ pc' = [pc EXCEPT ![i] = "guard"]
  /\ entry' = [entry EXCEPT ![i] = f]
  /\ cfg' = [cfg EXCEPT ![i] = c]
  /\ iter' = [iter EXCEPT ![i] = order]
  /\ result' = [result EXCEPT ![i] = new_result(f)]
  /\ delivered' = [delivered EXCEPT ![i] = Pending]
  /\ UNCHANGED <<pos, ssr, log, settles>>

BatchRequests(maps) ==
  [output_type : OutputTypes, tag_name_prefix : Prefixes, src : maps]

SingleRequests(names, contents) ==
  [file_content : contents, file_name : names,
   output_type : OutputTypes, tag_name_prefix : Prefixes]

StartBatch(i, maps) ==
  /\ pc[i] = "idle"
  /\ \E f \in {"compile_sync", "compile"}, c \in BatchRequests(maps) :
       \E order \in Orders(DOMAIN c.src) : Call_entry(i, f, c, order)

StartSingle(i, names, contents) ==
  /\ pc[i] = "idle"
  /\ \E f \in {"compile_single_sync", "compile_single"},
        c \in SingleRequests(names, contents) :
       Call_entry(i, f, c, <<c.file_name>>)

\* Faulty variant of is_bincode: any output type that is given is taken.
given_output_type(t) == t # ""

\* Faulty variant of is_bincode: every output type is taken.
any_output_type(t) == TRUE

\* `if output_type == "bincode"`
is_bincode(t) == t = "bincode"

\* `if output_type == "bincode" { let mut ssr = StyleSheetResource::new(); ...`
Guard(i) ==
  /\ pc[i] = "guard"
  /\ IF is_bincode(cfg[i].output_type)
     THEN /\ ssr' = [ssr EXCEPT ![engine_of(i)] = new_ssr]
          /\ log' = [log EXCEPT ![engine_of(i)] =
                       Append(@, Call(i, "new", "", << >>, << >>))]
          /\ pc' = [pc EXCEPT ![i] = after_guard(entry[i], cfg[i], iter[i])]
          /\ pos' = [pos EXCEPT ![i] = 1]
     ELSE /\ pc' = [pc EXCEPT ![i] = "return"]
          /\ UNCHANGED <<ssr, log, pos>>
  /\ UNCHANGED <<entry, cfg, iter, result, delivered, settles>>

\* Faulty variant of Advance: one loop binds and registers name after name.
Advance_fused(i, next) ==
  IF pc[i] = "prefix"
  THEN /\ pos' = pos
       /\ pc' = [pc EXCEPT ![i] = "register"]
  ELSE IF pc[i] = "register" /\ pos[i] < Len(iter[i])
            /\ cfg[i].tag_name_prefix # << >>
  THEN /\ pos' = [pos EXCEPT ![i] = @ + 1]
       /\ pc' = [pc EXCEPT ![i] = "prefix"]
  ELSE IF pos[i] < Len(iter[i])
  THEN /\ pos' = [pos EXCEPT ![i] = @ + 1]
       /\ pc' = pc
  ELSE /\ pos' = [pos EXCEPT ![i] = 1]
       /\ pc' = [pc EXCEPT ![i] = next]

\* Faulty variant of Advance: the prefix loop stops after its first name.
Advance_first_prefix_only(i, next) ==
  IF pos[i] < Len(iter[i]) /\ pc[i] # "prefix"
  THEN /\ pos' = [pos EXCEPT ![i] = @ + 1]
       /\ pc' = pc
  ELSE /\ pos' = [pos EXCEPT ![i] = 1]
       /\ pc' = [pc EXCEPT ![i] = next]

\* Faulty variant of Advance: every loop leaves out the last of several names.
Advance_off_by_one(i, next) ==
  IF pos[i] + 1 < Len(iter[i])
  THEN /\ pos' = [pos EXCEPT ![i] = @ + 1]
       /\ pc' = pc
  ELSE /\ pos' = [pos EXCEPT ![i] = 1]
       /\ pc' = [pc EXCEPT ![i] = next]

\* One turn of a loop over the names: to the next name, or to the next phase.
Advance(i, next) ==
  IF pos[i] < Len(iter[i])
  THEN /\ pos' = [pos EXCEPT ![i] = @ + 1]
       /\ pc' = pc
  ELSE /\ pos' = [pos EXCEPT ![i] = 1]
       /\ pc' = [pc EXCEPT ![i] = next]

\* `ssr.add_tag_name_prefix(name, &cfg.tag_name_prefix)`
BindPrefix(i) ==
  /\ pc[i] = "prefix"
  /\ LET name == iter[i][pos[i]]
         e    == engine_of(i)
     IN  /\ ssr' = [ssr EXCEPT ![e] = add_tag_name_prefix(@, name, cfg[i].tag_name_prefix)]
         /\ log' = [log EXCEPT ![e] =
                      Append(@, Call(i, "add_tag_name_prefix", name,
                                     cfg[i].tag_name_prefix, << >>))]
  /\ Advance(i, "register")
  /\ UNCHANGED <<entry, cfg, iter, result, delivered, settles>>

\* `let content = String::from_utf8_lossy(data); let warn = ssr.add_source(name,
\* content);` and the entry for the name.
Register(i) ==
  /\ pc[i] = "register"
  /\ LET name    == iter[i][pos[i]]
         e       == engine_of(i)
         content == from_utf8_lossy(data_of(entry[i], cfg[i], name))
         warn    == warnings_of(content)
     IN  /\ ssr' = [ssr EXCEPT ![e] = add_source(@, name, content)]
         /\ log' = [log EXCEPT ![e] =
                      Append(@, Call(i, "add_source", name, content, warn))]
         /\ result' = [result EXCEPT ![i] = registered(entry[i], @, name, warn)]
  /\ Advance(i, "serialize")
  /\ UNCHANGED <<entry, cfg, iter, delivered, settles>>

\* Faulty variant of after_serialize: the single pipeline builds an index too.
after_serialize_indexing(f) == "index"

\* What follows the serialization: the batch pipeline generates the import
\* index, the single pipeline returns.
after_serialize(f) == IF IsBatch(f) THEN "index" ELSE "return"

\* `if let Some(bincode) = ssr.serialize_bincode(name) { ... }`
Serialize(i) ==
  /\ pc[i] = "serialize"
  /\ LET name    == iter[i][pos[i]]
         e       == engine_of(i)
         bincode == serialize_bincode(ssr[e], name)
     IN  /\ log' = [log EXCEPT ![e] =
                      Append(@, Call(i, "serialize_bincode", name, << >>, bincode))]
         /\ result' = [result EXCEPT ![i] = serialized(entry[i], @, name, bincode)]
  /\ Advance(i, after_serialize(entry[i]))
  /\ UNCHANGED <<entry, cfg, iter, ssr, delivered, settles>>

\* `let index = ssr.generate_import_indexes();
\*  result.import_index = Buffer::from(index.serialize_bincode());`
ImportIndex(i) ==
  /\ pc[i] = "index"
  /\ LET e     == engine_of(i)
         index == import_index_bincode(ssr[e])
     IN  /\ log' = [log EXCEPT ![e] =
                      Append(@, Call(i, "generate_import_indexes", "", << >>, index))]
         /\ result' = [result EXCEPT ![i].import_index = index]
  /\ pc' = [pc EXCEPT ![i] = "return"]
  /\ UNCHANGED <<entry, cfg, iter, pos, ssr, delivered, settles>>

\* The engine call the invocation is about to make.
pending_op(i) ==
  CASE pc[i] = "prefix"    -> "add_tag_name_prefix"
    [] pc[i] = "register"  -> "add_source"
    [] pc[i] = "serialize" -> "serialize_bincode"
    [] pc[i] = "index"     -> "generate_import_indexes"

\* The engine call panics.  On the caller's thread the panic leaves the entry
\* point without a value; in a task it ends the task, whose JoinHandle then
\* yields a JoinError.
Fault(i) ==
  /\ pc[i] \in {"prefix", "register", "serialize", "index"}
  /\ log' = [log EXCEPT ![engine_of(i)] =
               Append(@, PanickedCall(i, pending_op(i),
                                      IF pc[i] = "index" THEN "" ELSE iter[i][pos[i]]))]
  /\ IF IsAsync(entry[i])
     THEN /\ pc' = [pc EXCEPT ![i] = "panicked"]
          /\ UNCHANGED <<delivered, settles>>
     ELSE /\ pc' = [pc EXCEPT ![i] = "done"]
          /\ delivered' = [delivered EXCEPT ![i] = [status |-> "panic"]]
          /\ settles' = [settles EXCEPT ![i] = @ + 1]
  /\ UNCHANGED <<entry, cfg, iter, pos, ssr, result>>

\* The runtime is shut down while the spawned task waits for a worker: the
\* task is dropped without having run and its JoinHandle yields a JoinError.
\* The body of the task has no await, so a task that a worker has started
\* runs to its return or to a panic.
Cancel(i) ==
  /\ IsAsync(entry[i])
  /\ pc[i] = "guard"
  /\ pc' = [pc EXCEPT ![i] = "cancelled"]
  /\ UNCHANGED <<entry, cfg, iter, pos, ssr, log, result, delivered, settles>>

\* `result` (blocking) or `Ok(result)` (the task's value).
Return(i) ==
  /\ pc[i] = "return"
  /\ IF IsAsync(entry[i])
     THEN /\ pc' = [pc EXCEPT ![i] = "finished"]
          /\ UNCHANGED <<delivered, settles>>
     ELSE /\ pc' = [pc EXCEPT ![i] = "done"]
          /\ delivered' = [delivered EXCEPT ![i] =
                             [status |-> "returned", value |-> result[i]]]
          /\ settles' = [settles EXCEPT ![i] = @ + 1]
  /\ UNCHANGED <<entry, cfg, iter, pos, ssr, log, result>>

\* Faulty variant of joined: a panicked task resolves with what it had built.
joined_unwinding(p, res) == [status |-> "resolved", value |-> res]

\* `.await.map_err(|e| Error::new(GenericFailure, format!("Async task error:
\* {}", e)))?`: what the awaited JoinHandle gives the caller, the task's value
\* or an error made of its JoinError, which tells a panicked task from a
\* cancelled one.
joined(p, res) ==
  IF p = "finished"
  THEN [status |-> "resolved", value |-> res]
  ELSE [status |-> "rejected", code |-> "GenericFailure", reason |-> p]

\* Faulty variant of ready: a panicked task never wakes its caller.
ready_on_return(p) == p = "finished"

\* The JoinHandle is ready when the task has returned, has panicked or has
\* been cancelled.
ready(p) == p \in {"finished", "panicked", "cancelled"}

Settle(i) ==
  /\ ready(pc[i])
  /\ delivered' = [delivered EXCEPT ![i] = joined(pc[i], result[i])]
  /\ settles' = [settles EXCEPT ![i] = @ + 1]
  /\ pc' = [pc EXCEPT ![i] = "done"]
  /\ UNCHANGED <<entry, cfg, iter, pos, ssr, log, result>>

Step(i) ==
  \/ Guard(i)
  \/ BindPrefix(i)
  \/ Register(i)
  \/ Serialize(i)
  \/ ImportIndex(i)
  \/ Fault(i)
  \/ Return(i)
  \/ Settle(i)

\* Up to MaxInv invocations, blocking and offloaded, batch and single, whose
\* steps interleave.
Next ==
  \/ \E i \in Inv : StartBatch(i, SrcMaps(Contents))
  \/ \E i \in Inv : StartSingle(i, Names, Contents)
  \/ \E i \in Inv : Step(i)
  \/ \E i \in Inv : Cancel(i)

Spec == Init /\ [][Next]_vars

\* One invocation, over every buffer of at most MaxContentLen bytes.
NextSolo ==
  \/ StartBatch(1, SrcMaps(SoloContents) \cup OneSrcMaps(Buffers))
  \/ StartSingle(1, Names, Buffers)
  \/ Step(1)
  \/ Cancel(1)

SpecSolo == Init /\ [][NextSolo]_vars

\* One invocation over the buffers of SoloContents; the caller's thread and
\* the worker pool keep running what they have started, and an engine call
\* returns or panics; the runtime may still be shut down before a task runs.
NextFair ==
  \/ StartBatch(1, SrcMaps(SoloContents))
  \/ StartSingle(1, Names, SoloContents)
  \/ Step(1)
  \/ Cancel(1)

SpecFair == Init /\ [][NextFair]_vars /\ \A i \in Inv : WF_vars(Step(i))

\* ------------------------------------------- an entry point run on its own
\* The body of an entry point executed from its first to its last statement on
\* a new engine, nothing else running: the value it returns for request c
\* when its map iterates in `order`.

RECURSIVE bind_all(_, _, _)
bind_all(e, order, prefix) ==
  IF order = << >> THEN e
  ELSE bind_all(add_tag_name_prefix(e, Head(order), prefix), Tail(order), prefix)

RECURSIVE register_all(_, _, _, _)
register_all(f, c, er, order) ==
  IF order = << >> THEN er
  ELSE LET name    == Head(order)
           content == from_utf8_lossy(data_of(f, c, name))
       IN  register_all(f, c,
             [e   |-> add_source(er.e, name, content),
              res |-> registered(f, er.res, name, warnings_of(content))],
             Tail(order))

RECURSIVE serialize_all(_, _, _, _)
serialize_all(f, e, res, order) ==
  IF order = << >> THEN res
  ELSE serialize_all(f, e,
         serialized(f, res, Head(order), serialize_bincode(e, Head(order))),
         Tail(order))

RunAlone(f, c, order) ==
  IF ~is_bincode(c.output_type) THEN new_result(f)
  ELSE
    LET bound == IF c.tag_name_prefix # << >>
                 THEN bind_all(new_ssr, order, c.tag_name_prefix)
                 ELSE new_ssr
        er    == register_all(f, c, [e |-> bound, res |-> new_result(f)], order)
        res   == serialize_all(f, er.e, er.res, order)
    IN  IF IsBatch(f)
        THEN [res EXCEPT !.import_index = import_index_bincode(er.e)]
        ELSE res

\* ------------------------------------------------------------ properties

HasValue(i) == delivered[i].status \in {"returned", "resolved"}

Failed(i) == delivered[i].status \in {"panic", "rejected"}

\* The calls of invocation i with operation op on name.
CallsOn(i, op, name) ==
  SelectSeq(Calls(i), LAMBDA c : c.op = op /\ c.name = name)

CallsOf(i, op) == SelectSeq(Calls(i), LAMBDA c : c.op = op)

\* The task of invocation i was cancelled before it ran.
Cancelled(i) ==
  \/ pc[i] = "cancelled"
  \/ /\ delivered[i].status = "rejected"
     /\ delivered[i].reason = "cancelled"

\* An engine call of invocation i has panicked.
Faulted(i) == \E k \in 1 .. Len(Calls(i)) : Calls(i)[k].panicked

\* The messages of the warnings an add_source call returned.
Messages(warn) == [k \in 1 .. Len(warn) |-> warn[k].message]

\* The artifact that stands for an answer of serialize_bincode.
ArtifactOf(bincode) == IF bincode = None THEN << >> ELSE bincode[1]

\* C1: a batch call with output type "bincode" that returns a result returns
\* one whose files have exactly the names of the request's sources, whether or
\* not a name got an artifact.
C1_FilesKeysAreSourceKeys ==
  \A i \in Inv :
    (IsBatch(entry[i]) /\ HasValue(i) /\ cfg[i].output_type = "bincode")
      => DOMAIN delivered[i].value.files = DOMAIN cfg[i].src

\* A returned two-name batch in which one name has an artifact and the other
\* has none.
C1_Witness ==
  \E i \in Inv :
    /\ IsBatch(entry[i]) /\ HasValue(i) /\ cfg[i].output_type = "bincode"
    /\ DOMAIN cfg[i].src = Names
    /\ \E n, m \in Names : /\ delivered[i].value.files[n].content = << >>
                           /\ delivered[i].value.files[m].content # << >>

\* C2: a batch call with any other output type makes no engine call, creates
\* no engine, and its result has no files and an empty import index, whatever
\* the sources are; it ends without a result only when its task was cancelled
\* before it ran.
C2_OtherOutputTypeIsNoOp ==
  \A i \in Inv :
    (IsBatch(entry[i]) /\ cfg[i].output_type # "bincode")
      => /\ Calls(i) = << >>
         /\ ssr[engine_of(i)] = NoEngine
         /\ pc[i] \in {"guard", "cancelled", "return", "finished", "done"}
         /\ pc[i] = "done" => (HasValue(i) \/ Cancelled(i))
         /\ HasValue(i) => /\ DOMAIN delivered[i].value.files = {}
                           /\ delivered[i].value.import_index = << >>

\* A returned "json" batch with two sources.
C2_Witness ==
  \E i \in Inv :
    /\ IsBatch(entry[i]) /\ cfg[i].output_type = "json" /\ HasValue(i)
    /\ DOMAIN cfg[i].src = Names

\* What the engine saw of invocation i: operation, name, argument, answer.
Trace(i) ==
  [k \in 1 .. Len(Calls(i)) |->
     <<Calls(i)[k].op, Calls(i)[k].name, Calls(i)[k].arg, Calls(i)[k].ret,
       Calls(i)[k].panicked>>]

\* The same, restricted to one name ("" for the calls that take no name).
TraceOn(i, name) ==
  LET cs == SelectSeq(Calls(i), LAMBDA c : c.name = name)
  IN  [k \in 1 .. Len(cs) |-> <<cs[k].op, cs[k].arg, cs[k].ret, cs[k].panicked>>]

\* The operations invocation i called, in order.
Ops(i) == [k \in 1 .. Len(Calls(i)) |-> Calls(i)[k].op]

\* i is a blocking call and j the offloaded call of the same shape with the
\* same request.
Counterparts(i, j) ==
  /\ \/ entry[i] = "compile_sync" /\ entry[j] = "compile"
     \/ entry[i] = "compile_single_sync" /\ entry[j] = "compile_single"
  /\ cfg[i] = cfg[j]

\* C3 as stated: the offloaded entry point resolves to the value the blocking
\* one returns for the same request, and both issue the same sequence of
\* engine calls.
C3_SameValueSameCallSequence ==
  \A i, j \in Inv :
    (Counterparts(i, j) /\ HasValue(i) /\ HasValue(j))
      => /\ delivered[i].value = delivered[j].value
         /\ Trace(i) = Trace(j)

\* C3 as amended: the offloaded entry point resolves to the value the blocking
\* one returns for the same request; both issue the same operations in the
\* same order and, for every name, the same calls with the same arguments and
\* answers in the same order.  Only the order in which a phase visits the
\* names may differ.
C3_SameValueSameCallsPerName ==
  \A i, j \in Inv :
    (Counterparts(i, j) /\ HasValue(i) /\ HasValue(j))
      => /\ delivered[i].value = delivered[j].value
         /\ Ops(i) = Ops(j)
         /\ \A n \in Names \cup {""} : TraceOn(i, n) = TraceOn(j, n)

\* A blocking and an offloaded batch of the same two-name request, both
\* returned, that visited the names in different orders.
C3_Witness ==
  \E i, j \in Inv :
    /\ Counterparts(i, j) /\ HasValue(i) /\ HasValue(j)
    /\ entry[i] = "compile_sync" /\ cfg[i].output_type = "bincode"
    /\ iter[i] # iter[j]
    /\ \E n \in Names : delivered[j].value.files[n].warnings # << >>

\* i is a single call and j a batch call whose only source is i's file, with
\* the same output type and prefix.
SingleOfBatch(i, j) ==
  /\ ~IsBatch(entry[i]) /\ entry[i] # "none"
  /\ IsBatch(entry[j])
  /\ cfg[j].src = (cfg[i].file_name :> cfg[i].file_content)
  /\ cfg[j].output_type = cfg[i].output_type
  /\ cfg[j].tag_name_prefix = cfg[i].tag_name_prefix

EmptyItem == [content |-> << >>, warnings |-> << >>]

\* C4 as stated: for every output type, the FileResult of a single call equals
\* the entry files[n] of the batch call on the one-source request.
C4_SingleEqualsBatchEntry ==
  \A i, j \in Inv :
    (SingleOfBatch(i, j) /\ HasValue(i) /\ HasValue(j))
      => /\ cfg[i].file_name \in DOMAIN delivered[j].value.files
         /\ delivered[j].value.files[cfg[i].file_name] = delivered[i].value

\* C4 as amended: for output type "bincode" the FileResult of a single call
\* equals the entry files[n] of the batch call on the one-source request; for
\* any other output type the batch result has no entry for n and the single
\* call returns the empty FileResult.
C4_SingleEqualsBatchEntryForBincode ==
  \A i, j \in Inv :
    (SingleOfBatch(i, j) /\ HasValue(i) /\ HasValue(j))
      => IF cfg[i].output_type = "bincode"
         THEN /\ cfg[i].file_name \in DOMAIN delivered[j].value.files
              /\ delivered[j].value.files[cfg[i].file_name] = delivered[i].value
         ELSE /\ DOMAIN delivered[j].value.files = {}
              /\ delivered[i].value = EmptyItem

\* A single call and the matching one-source batch, both returned, with an
\* artifact and a diagnostic.
C4_Witness ==
  \E i, j \in Inv :
    /\ SingleOfBatch(i, j) /\ HasValue(i) /\ HasValue(j)
    /\ cfg[i].output_type = "bincode"
    /\ delivered[i].value.content # << >>
    /\ delivered[i].value.warnings # << >>

\* item is the finished FileResult of name n in invocation i: n was
\* registered once and serialized once, and item holds the answers.
FinalItem(i, n, item) ==
  /\ Len(CallsOn(i, "add_source", n)) = 1
  /\ Len(CallsOn(i, "serialize_bincode", n)) = 1
  /\ item.warnings = Messages(CallsOn(i, "add_source", n)[1].ret)
  /\ item.content = ArtifactOf(CallsOn(i, "serialize_bincode", n)[1].ret)

\* v is a complete result of invocation i.
Complete(i, v) ==
  IF cfg[i].output_type # "bincode" THEN v = new_result(entry[i])
  ELSE IF IsBatch(entry[i])
  THEN /\ DOMAIN v.files = DOMAIN cfg[i].src
       /\ \A n \in DOMAIN cfg[i].src : FinalItem(i, n, v.files[n])
       /\ Len(CallsOf(i, "generate_import_indexes")) = 1
       /\ v.import_index = CallsOf(i, "generate_import_indexes")[1].ret
  ELSE FinalItem(i, cfg[i].file_name, v)

\* C5: a call ends in exactly one outcome, a complete result or one failure
\* that carries no result.  When an engine call has panicked no result, partial
\* or not, reaches the caller; an offloaded call is then rejected once with the
\* generic failure.  The one other failure is the generic failure of an
\* offloaded call whose task was cancelled before it made any engine call.
C5_CompleteResultOrFailure ==
  \A i \in Inv :
    /\ settles[i] <= 1
    /\ (pc[i] = "done") <=> (settles[i] = 1)
    /\ (pc[i] = "done") <=> (HasValue(i) \/ Failed(i))
    /\ HasValue(i) => (~Faulted(i) /\ Complete(i, delivered[i].value))
    /\ Failed(i) => /\ (Faulted(i) \/ Cancelled(i))
                     /\ "value" \notin DOMAIN delivered[i]
    /\ (Faulted(i) /\ pc[i] = "done") =>
         delivered[i] = IF IsAsync(entry[i])
                        THEN [status |-> "rejected", code |-> "GenericFailure",
                              reason |-> "panicked"]
                        ELSE [status |-> "panic"]
    /\ Cancelled(i) => /\ IsAsync(entry[i])
                        /\ Calls(i) = << >>
                        /\ ~HasValue(i)
                        /\ pc[i] = "done" =>
                             delivered[i] = [status |-> "rejected",
                                             code |-> "GenericFailure",
                                             reason |-> "cancelled"]

\* An offloaded batch whose engine panicked after a file had been entered in
\* the result under construction, and which has been rejected.
C5_Witness ==
  \E i \in Inv :
    /\ entry[i] = "compile" /\ Faulted(i) /\ pc[i] = "done"
    /\ DOMAIN result[i].files # {}
    /\ delivered[i].status = "rejected"

\* The FileResult of name n in the result res of invocation i.
ItemOf(i, res, n) == IF IsBatch(entry[i]) THEN res.files[n] ELSE res

\* Invocation i has registered name n.
Registered(i, n) ==
  \E k \in 1 .. Len(Calls(i)) :
    /\ Calls(i)[k].op = "add_source" /\ Calls(i)[k].name = n
    /\ ~Calls(i)[k].panicked

\* C6: from the registration of a name on, through serialization and in the
\* delivered result, the diagnostics of the name are the messages of the
\* warnings add_source returned for that name, in that order; a completed
\* call has registered every name exactly once.
C6_DiagnosticsAreRegistrationWarnings ==
  \A i \in Inv :
    /\ \A n \in Names :
         Registered(i, n) =>
           /\ Len(CallsOn(i, "add_source", n)) = 1
           /\ ItemOf(i, result[i], n).warnings
                = Messages(CallsOn(i, "add_source", n)[1].ret)
    /\ (HasValue(i) /\ cfg[i].output_type = "bincode") =>
         \A n \in keys_of(entry[i], cfg[i]) :
           /\ Registered(i, n)
           /\ ItemOf(i, delivered[i].value, n).warnings
                = Messages(CallsOn(i, "add_source", n)[1].ret)

\* A returned two-name batch whose names have different diagnostics, one of
\* them two different messages.
C6_Witness ==
  \E i \in Inv :
    /\ IsBatch(entry[i]) /\ HasValue(i) /\ cfg[i].output_type = "bincode"
    /\ DOMAIN cfg[i].src = Names
    /\ \E n, m \in Names :
         /\ Len(delivered[i].value.files[n].warnings) = 2
         /\ delivered[i].value.files[n].warnings[1]
              # delivered[i].value.files[n].warnings[2]
         /\ Len(delivered[i].value.files[m].warnings) = 1

\* Invocation i has been made.
Made(i) == entry[i] # "none"

\* Invocation i made no add_tag_name_prefix call, and its engine knows no
\* prefix: what a pipeline without a prefix phase does.
NoPrefixPhase(i) ==
  /\ CallsOf(i, "add_tag_name_prefix") = << >>
  /\ DOMAIN ssr[engine_of(i)].prefixes = {}
  /\ \A n \in DOMAIN ssr[engine_of(i)].refs :
       ssr[engine_of(i)].refs[n].prefix = << >>

\* Invocation i called add_tag_name_prefix once for every name of its
\* request, with the request's prefix.
EveryNameBound(i) ==
  \A n \in keys_of(entry[i], cfg[i]) :
    /\ Len(CallsOn(i, "add_tag_name_prefix", n)) = 1
    /\ CallsOn(i, "add_tag_name_prefix", n)[1].arg = cfg[i].tag_name_prefix

\* C7 as stated: with an empty prefix no add_tag_name_prefix call is made;
\* with a non-empty prefix add_tag_name_prefix is called with it for every
\* name of the request.
C7_PrefixBoundIffNonEmpty ==
  \A i \in Inv :
    Made(i) =>
      /\ cfg[i].tag_name_prefix = << >> => NoPrefixPhase(i)
      /\ (cfg[i].tag_name_prefix # << >> /\ HasValue(i)) => EveryNameBound(i)

\* C7 as amended: with an empty prefix no add_tag_name_prefix call is made;
\* with a non-empty prefix and output type "bincode", add_tag_name_prefix is
\* called with it for every name of the request before anything is
\* registered; with any other output type no call is made.
C7_PrefixBoundIffNonEmptyAndBincode ==
  \A i \in Inv :
    Made(i) =>
      /\ cfg[i].tag_name_prefix = << >> => NoPrefixPhase(i)
      /\ cfg[i].output_type # "bincode" => NoPrefixPhase(i)
      /\ ( /\ cfg[i].tag_name_prefix # << >>
           /\ cfg[i].output_type = "bincode"
           /\ \/ HasValue(i)
              \/ pc[i] \in {"register", "serialize", "index", "return", "finished"} )
         => EveryNameBound(i)

\* A returned two-name batch with a non-empty prefix, and an artifact that
\* carries the prefix.
C7_Witness ==
  \E i \in Inv :
    /\ IsBatch(entry[i]) /\ HasValue(i) /\ cfg[i].output_type = "bincode"
    /\ cfg[i].tag_name_prefix # << >>
    /\ DOMAIN cfg[i].src = Names
    /\ \E n \in Names : /\ delivered[i].value.files[n].content # << >>
                        /\ Head(delivered[i].value.files[n].content) = 112

\* C8: an engine instance is created by one invocation and called by that
\* invocation only; it holds nothing but that invocation's names and prefix;
\* and however the steps of concurrent invocations interleave, the value an
\* invocation delivers is the value its entry point returns when run alone.
C8_PrivateEngine ==
  /\ \A e \in Inv : \A k \in 1 .. Len(log[e]) : log[e][k].by = e
  /\ \A i \in Inv :
       /\ Len(CallsOf(i, "new")) <= 1
       /\ Made(i) =>
            /\ (DOMAIN ssr[engine_of(i)].refs \cup DOMAIN ssr[engine_of(i)].prefixes)
                 \subseteq keys_of(entry[i], cfg[i])
            /\ \A n \in DOMAIN ssr[engine_of(i)].prefixes :
                 ssr[engine_of(i)].prefixes[n] = cfg[i].tag_name_prefix
       /\ HasValue(i) => delivered[i].value = RunAlone(entry[i], cfg[i], iter[i])

\* An offloaded batch that has returned while a blocking call on another name,
\* with another prefix, is between its registration and its serialization.
C8_Witness ==
  \E i, j \in Inv :
    /\ i # j
    /\ entry[i] = "compile" /\ HasValue(i) /\ cfg[i].output_type = "bincode"
    /\ cfg[i].src # EmptyMap
    /\ ~IsAsync(entry[j]) /\ pc[j] = "serialize"
    /\ cfg[j].tag_name_prefix # cfg[i].tag_name_prefix
    /\ \E n \in keys_of(entry[j], cfg[j]) : n \notin DOMAIN cfg[i].src

\* The UTF-8 encoding of a text.
RECURSIVE encode_utf8(_)
encode_utf8(text) ==
  IF text = << >> THEN << >>
  ELSE LET c == Head(text)
       IN  (IF c < 128 THEN <<c>>
            ELSE IF c < 2048 THEN <<192 + (c \div 64), 128 + (c % 64)>>
            ELSE IF c < 65536
              THEN <<224 + (c \div 4096), 128 + ((c \div 64) % 64), 128 + (c % 64)>>
            ELSE <<240 + (c \div 262144), 128 + ((c \div 4096) % 64),
                   128 + ((c \div 64) % 64), 128 + (c % 64)>>)
           \o encode_utf8(Tail(text))

IsScalarValue(c) == c \in 0 .. 1114111 /\ ~(c >= 55296 /\ c <= 57343)

Replaced(text) == \E k \in 1 .. Len(text) : text[k] = REPLACEMENT_CHARACTER

\* text is a lossy decoding of bytes: a sequence of scalar values, no longer
\* than the buffer, that encodes back to the buffer unless a placeholder
\* stands in it for an invalid sequence.
LossyDecoding(bytes, text) ==
  /\ \A k \in 1 .. Len(text) : IsScalarValue(text[k])
  /\ Len(text) <= Len(bytes)
  /\ ~Replaced(text) => encode_utf8(text) = bytes
  /\ Replaced(text) => encode_utf8(text) # bytes

\* Name n of invocation i was registered once, without a panic, with a lossy
\* decoding of its buffer, and has its entry in the result res.
DecodedAndEntered(i, n, res) ==
  /\ Len(CallsOn(i, "add_source", n)) = 1
  /\ ~CallsOn(i, "add_source", n)[1].panicked
  /\ LossyDecoding(data_of(entry[i], cfg[i], n), CallsOn(i, "add_source", n)[1].arg)
  /\ IsBatch(entry[i]) => n \in DOMAIN res.files

\* C9 as stated: whatever the bytes of a source, a failure comes from an
\* engine panic or a cancelled task only, and in a completed call every name was registered with
\* the lossy decoding of its bytes and has its FileResult.
C9_EveryBufferDecodedAndRegistered ==
  \A i \in Inv :
    /\ Failed(i) => (Faulted(i) \/ Cancelled(i))
    /\ HasValue(i) =>
         \A n \in keys_of(entry[i], cfg[i]) : DecodedAndEntered(i, n, delivered[i].value)

\* C9 as amended: whatever the bytes of a source, a failure comes from an
\* engine panic or a cancelled task only; in a completed call with output type "bincode" every
\* name was registered with the lossy decoding of its bytes and has its
\* FileResult; with any other output type nothing is decoded or registered and
\* a batch result has no entry.
C9_EveryBufferDecodedAndRegisteredForBincode ==
  \A i \in Inv :
    /\ Failed(i) => (Faulted(i) \/ Cancelled(i))
    /\ HasValue(i) =>
         IF cfg[i].output_type = "bincode"
         THEN \A n \in keys_of(entry[i], cfg[i]) :
                DecodedAndEntered(i, n, delivered[i].value)
         ELSE /\ CallsOf(i, "add_source") = << >>
              /\ IsBatch(entry[i]) => DOMAIN delivered[i].value.files = {}

\* A returned batch whose source starts with valid text, continues with an
\* invalid sequence of two bytes and ends with valid text again.
C9_Witness ==
  \E i \in Inv :
    /\ IsBatch(entry[i]) /\ HasValue(i) /\ cfg[i].output_type = "bincode"
    /\ \E n \in DOMAIN cfg[i].src :
         /\ cfg[i].src[n] = <<226, 169, 97>>
         /\ CallsOn(i, "add_source", n)[1].arg = <<REPLACEMENT_CHARACTER, 97>>
         /\ n \in DOMAIN delivered[i].value.files

\* Invocation i is an offloaded call whose task has not been awaited to its end.
InFlight(i) == IsAsync(entry[i]) /\ pc[i] # "done"

\* The handle of invocation i is settled: resolved with the task's value, or
\* rejected with the generic failure after a panic in the task or after the
\* task's cancellation.
Settled(i) ==
  /\ pc[i] = "done"
  /\ \/ /\ delivered[i] = [status |-> "resolved", value |-> result[i]]
        /\ ~Faulted(i)
     \/ /\ delivered[i] = [status |-> "rejected", code |-> "GenericFailure",
                            reason |-> "panicked"]
        /\ Faulted(i)
     \/ /\ delivered[i] = [status |-> "rejected", code |-> "GenericFailure",
                            reason |-> "cancelled"]
        /\ Calls(i) = << >>

\* C10: an offloaded call, once spawned, is eventually settled; it is settled
\* once and keeps its outcome; until then the caller holds a pending handle
\* and nothing of the task's state; and no step other than the task's own
\* moves the task, which ends by its own steps or, before it has run, by the
\* runtime's shutdown.
C10_EventuallySettledOnce ==
  /\ \A i \in Inv : (IsAsync(entry[i]) /\ pc[i] = "guard") ~> Settled(i)
  /\ [](\A i \in Inv :
          IsAsync(entry[i]) =>
            /\ settles[i] <= 1
            /\ InFlight(i) => (delivered[i] = Pending /\ settles[i] = 0)
            /\ pc[i] = "done" => (Settled(i) /\ settles[i] = 1))
  /\ [][\A i \in Inv :
          IsAsync(entry[i]) =>
            /\ (pc'[i] # pc[i] \/ result'[i] # result[i]) => (Step(i) \/ Cancel(i))
            /\ pc[i] = "done" => (delivered'[i] = delivered[i] /\ pc'[i] = "done")]_vars

\* An offloaded batch resolved with an artifact, and never settled but once.
C10_Witness ==
  \E i \in Inv :
    /\ entry[i] = "compile" /\ pc[i] = "done" /\ settles[i] = 1
    /\ delivered[i].status = "resolved"
    /\ \E n \in DOMAIN delivered[i].value.files :
         delivered[i].value.files[n].content # << >>

\* The positions in the calls of invocation i at which op was called on name.
PositionsOn(i, op, name) ==
  {k \in 1 .. Len(Calls(i)) : Calls(i)[k].op = op /\ Calls(i)[k].name = name}

\* The positions in the calls of invocation i at which op was called.
PositionsOf(i, op) ==
  {k \in 1 .. Len(Calls(i)) : Calls(i)[k].op = op}

\* C11: at every point of every execution of either pipeline, the
\* add_tag_name_prefix call for a name, if there is one, comes before the
\* add_source call for that name; in the batch pipeline every
\* add_tag_name_prefix call of the invocation comes before its first add_source
\* call.
C11_PrefixBeforeRegistration ==
  \A i \in Inv :
    /\ \A n \in Names :
         \A k \in PositionsOn(i, "add_tag_name_prefix", n) :
           \A l \in PositionsOn(i, "add_source", n) : k < l
    /\ IsBatch(entry[i]) =>
         \A k \in PositionsOf(i, "add_tag_name_prefix") :
           \A l \in PositionsOf(i, "add_source") : k < l
    /\ pc[i] = "prefix" => PositionsOf(i, "add_source") = {}

\* A two-name batch with a prefix whose two names are bound and registered.
C11_Witness ==
  \E i \in Inv :
    /\ IsBatch(entry[i]) /\ DOMAIN cfg[i].src = Names
    /\ Cardinality(PositionsOf(i, "add_tag_name_prefix")) = 2
    /\ Cardinality(PositionsOf(i, "add_source")) = 2
    /\ ~Faulted(i)

\* Invocation i is a batch call with output type "bincode".
BincodeBatch(i) == IsBatch(entry[i]) /\ cfg[i].output_type = "bincode"

\* C12: in every execution of the batch pipeline with output type "bincode",
\* no serialize_bincode call is made until add_source has been called for
\* every name of the sources; generate_import_indexes is called at most once,
\* after every add_source and serialize_bincode call, and exactly once by the
\* time the invocation has a value.  With no sources it is still called once,
\* on the engine as created, and its serialization is the import index.
C12_RegisterAllThenSerializeThenIndexOnce ==
  \A i \in Inv :
    BincodeBatch(i) =>
      /\ \A l \in PositionsOf(i, "serialize_bincode") :
           \A n \in DOMAIN cfg[i].src :
             \E k \in PositionsOn(i, "add_source", n) :
               k < l /\ ~Calls(i)[k].panicked
      /\ Cardinality(PositionsOf(i, "generate_import_indexes")) <= 1
      /\ \A x \in PositionsOf(i, "generate_import_indexes") :
           /\ x = Len(Calls(i))
           /\ \A n \in DOMAIN cfg[i].src :
                /\ \E k \in PositionsOn(i, "add_source", n) : k < x
                /\ \E l \in PositionsOn(i, "serialize_bincode", n) : l < x
      /\ HasValue(i) =>
           /\ Len(CallsOf(i, "generate_import_indexes")) = 1
           /\ delivered[i].value.import_index =
                CallsOf(i, "generate_import_indexes")[1].ret
           /\ cfg[i].src = EmptyMap =>
                /\ Ops(i) = <<"new", "generate_import_indexes">>
                /\ delivered[i].value.import_index = import_index_bincode(new_ssr)

\* A two-name "bincode" batch that has a value: two registrations, then two
\* serializations, then the index.
C12_Witness ==
  \E i \in Inv :
    /\ BincodeBatch(i) /\ HasValue(i) /\ DOMAIN cfg[i].src = Names
    /\ cfg[i].tag_name_prefix = << >>
    /\ Ops(i) = <<"new", "add_source", "add_source", "serialize_bincode",
                  "serialize_bincode", "generate_import_indexes">>

\* A "bincode" batch without sources that has a value.
C12_EmptySources ==
  \E i \in Inv : BincodeBatch(i) /\ HasValue(i) /\ cfg[i].src = EmptyMap

\* The names invocation i works on.
NamesOf(i) == keys_of(entry[i], cfg[i])

\* C13: in a call with output type "bincode" that has a value, the artifact of
\* every name is the bytes serialize_bincode returned for it when it returned
\* some, and empty when it returned none; an absent artifact is no failure and
\* leaves the entry in place: a call fails only by an engine panic or by the
\* cancellation of its task, never on an absent answer.  When the registration
\* phase has ended and no serialize_bincode call has been made, every entry's
\* artifact is empty.
C13_ArtifactIsSerializationOrEmpty ==
  \A i \in Inv :
    (Made(i) /\ cfg[i].output_type = "bincode") =>
      /\ HasValue(i) =>
           \A n \in NamesOf(i) :
             LET answers == CallsOn(i, "serialize_bincode", n)
                 item    == ItemOf(i, delivered[i].value, n)
             IN  /\ Len(answers) = 1
                 /\ IsBatch(entry[i]) => n \in DOMAIN delivered[i].value.files
                 /\ answers[1].ret # None => item.content = answers[1].ret[1]
                 /\ answers[1].ret = None => item.content = << >>
      /\ (pc[i] = "serialize" /\ CallsOf(i, "serialize_bincode") = << >>) =>
           \A n \in NamesOf(i) :
             /\ Registered(i, n)
             /\ IsBatch(entry[i]) => n \in DOMAIN result[i].files
             /\ ItemOf(i, result[i], n).content = << >>
      /\ (Failed(i) \/ pc[i] = "panicked") => (Faulted(i) \/ Cancelled(i))
      /\ \A k \in PositionsOf(i, "serialize_bincode") :
           (Calls(i)[k].ret = None /\ ~Calls(i)[k].panicked /\ k = Len(Calls(i)))
             => (~Failed(i) /\ pc[i] \notin {"panicked", "cancelled"})

\* A two-name "bincode" batch that has a value in which serialize_bincode
\* returned some bytes for one name and none for the other.
C13_Witness ==
  \E i \in Inv :
    /\ BincodeBatch(i) /\ HasValue(i) /\ DOMAIN cfg[i].src = Names
    /\ \E n, m \in Names :
         /\ Len(CallsOn(i, "serialize_bincode", n)) = 1
         /\ Len(CallsOn(i, "serialize_bincode", m)) = 1
         /\ CallsOn(i, "serialize_bincode", n)[1].ret = None
         /\ CallsOn(i, "serialize_bincode", m)[1].ret # None

\* C14: the value of a batch call does not depend on the order in which the
\* names are iterated in the prefix, registration and serialization loops:
\* the value delivered under the order taken is the value the entry point
\* returns under every iteration order of the same request, files and import
\* index alike, so any two iteration orders give identical results.
C14_ValueIndependentOfIterationOrder ==
  \A i \in Inv :
    (IsBatch(entry[i]) /\ HasValue(i)) =>
      \A order \in Orders(DOMAIN cfg[i].src) :
        LET other == RunAlone(entry[i], cfg[i], order)
        IN  /\ delivered[i].value.files = other.files
            /\ delivered[i].value.import_index = other.import_index

\* A two-name "bincode" batch with a prefix that has a value, both names with
\* an artifact, iterated from the second name to the first.
C14_Witness ==
  \E i \in Inv :
    /\ BincodeBatch(i) /\ HasValue(i) /\ DOMAIN cfg[i].src = Names
    /\ cfg[i].tag_name_prefix # << >>
    /\ iter[i] = <<NameList[2], NameList[1]>>
    /\ \A n \in Names : delivered[i].value.files[n].content # << >>

\* Invocation i is a call of the single pipeline.
IsSingle(i) == Made(i) /\ ~IsBatch(entry[i])

\* The engine calls of a single call that ran its pipeline to the end, without
\* and with a prefix.
SingleOps ==
  {<<"new", "add_source", "serialize_bincode">>,
   <<"new", "add_tag_name_prefix", "add_source", "serialize_bincode">>}

\* Every engine call of invocation i that takes a name is on the file name.
OnFileNameOnly(i) ==
  \A k \in 1 .. Len(Calls(i)) :
    Calls(i)[k].op # "new" => Calls(i)[k].name = cfg[i].file_name

\* The value is a bare FileResult: an artifact and diagnostics, no files map
\* and no import index.
BareFileResult(v) == DOMAIN v = {"content", "warnings"}

\* C15 as stated: a single call never calls generate_import_indexes, and the
\* engine calls of one that has a value are, in this order, at most one
\* add_tag_name_prefix, exactly one add_source and exactly one
\* serialize_bincode, all on the file name; its value is a bare FileResult.
C15_SingleCallsRegisterAndSerializeOnce ==
  \A i \in Inv :
    IsSingle(i) =>
      /\ PositionsOf(i, "generate_import_indexes") = {}
      /\ pc[i] # "index"
      /\ OnFileNameOnly(i)
      /\ HasValue(i) => /\ Ops(i) \in SingleOps
                        /\ BareFileResult(delivered[i].value)

\* C15, with the output type: a single call never calls
\* generate_import_indexes; with output type "bincode" the engine calls of one
\* that has a value are, in this order, at most one add_tag_name_prefix (one
\* exactly when the prefix is not empty), exactly one add_source and exactly
\* one serialize_bincode, all on the file name, and with any other output type
\* there are none; its value is a bare FileResult.
C15_SingleCallsRegisterAndSerializeOnceForBincode ==
  \A i \in Inv :
    IsSingle(i) =>
      /\ PositionsOf(i, "generate_import_indexes") = {}
      /\ pc[i] # "index"
      /\ OnFileNameOnly(i)
      /\ \E ops \in SingleOps :
           \E k \in 0 .. Len(ops) : Ops(i) = SubSeq(ops, 1, k)
      /\ HasValue(i) =>
           /\ BareFileResult(delivered[i].value)
           /\ cfg[i].output_type = "bincode" =>
                /\ Ops(i) \in SingleOps
                /\ ("add_tag_name_prefix" \in {Ops(i)[k] : k \in DOMAIN Ops(i)})
                     <=> cfg[i].tag_name_prefix # << >>
           /\ cfg[i].output_type # "bincode" => Ops(i) = << >>

\* A single "bincode" call with a prefix that has a value after its three
\* calls on the file name.
C15_Witness ==
  \E i \in Inv :
    /\ IsSingle(i) /\ HasValue(i) /\ cfg[i].output_type = "bincode"
    /\ cfg[i].tag_name_prefix # << >>
    /\ Len(Calls(i)) = 4

\* C16: in every batch call with output type "bincode" that has a value,
\* each name of the sources got exactly one add_source call and exactly one
\* serialize_bincode call, and exactly one add_tag_name_prefix call if the
\* prefix is not empty and none otherwise; at no point is an engine call made
\* for a name that is not a key of the sources.
C16_OneCallOfEachKindPerName ==
  \A i \in Inv :
    BincodeBatch(i) =>
      /\ \A k \in 1 .. Len(Calls(i)) :
           \/ Calls(i)[k].op \in {"new", "generate_import_indexes"}
           \/ Calls(i)[k].name \in DOMAIN cfg[i].src
      /\ HasValue(i) =>
           \A n \in DOMAIN cfg[i].src :
             /\ Len(CallsOn(i, "add_source", n)) = 1
             /\ Len(CallsOn(i, "serialize_bincode", n)) = 1
             /\ Len(CallsOn(i, "add_tag_name_prefix", n)) =
                  IF cfg[i].tag_name_prefix # << >> THEN 1 ELSE 0

\* A "bincode" batch with a prefix and one of the two names as its only
\* source that has a value after one call of each kind on that name.
C16_Witness ==
  \E i \in Inv :
    /\ BincodeBatch(i) /\ HasValue(i)
    /\ cfg[i].tag_name_prefix # << >>
    /\ \E n \in Names :
         /\ DOMAIN cfg[i].src = {n}
         /\ Ops(i) = <<"new", "add_tag_name_prefix", "add_source",
                       "serialize_bincode", "generate_import_indexes">>
         /\ \A k \in 2 .. 4 : Calls(i)[k].name = n

\* C17: a single call with an output type other than "bincode" creates no
\* engine and makes no engine call, and the value it has is a FileResult with
\* an empty artifact and no diagnostics, whatever the file name, the content
\* and the prefix are; only compile_single can end without a value, when its
\* task was cancelled before it ran.
C17_SingleOtherOutputTypeIsNoOp ==
  \A i \in Inv :
    (IsSingle(i) /\ cfg[i].output_type # "bincode") =>
      /\ Calls(i) = << >>
      /\ ssr[engine_of(i)] = NoEngine
      /\ pc[i] \in {"guard", "cancelled", "return", "finished", "done"}
      /\ pc[i] = "done" => (HasValue(i) \/ Cancelled(i))
      /\ Cancelled(i) => entry[i] = "compile_single"
      /\ HasValue(i) => delivered[i].value = EmptyItem

\* A single "json" call with a prefix and a content that is not valid UTF-8
\* that has a value.
C17_Witness ==
  \E i \in Inv :
    /\ IsSingle(i) /\ cfg[i].output_type = "json" /\ HasValue(i)
    /\ cfg[i].tag_name_prefix # << >>
    /\ cfg[i].file_content = <<97, 255>>

====
